---- MODULE Spec2Model ----
(***************************************************************************)
(* Model of mcp_builder: the documentation crawler                         *)
(* (ingestion/downloader.py) and the blueprint orchestrator                *)
(* (orchestration/llm.py).                                                 *)
(*                                                                         *)
(* Strings are sequences of tokens; a token is a chunk of characters of    *)
(* one character class, so that regular-expression matching, splitting     *)
(* and prefix tests are computed on the sequence as the code computes      *)
(* them on the string.                                                     *)
(***************************************************************************)
EXTENDS Naturals, Integers, Sequences, FiniteSets, TLC

VARIABLES
    \* ---- DocumentationCrawler ----
    start_url,      \* self.start_url
    config,         \* self.config (CrawlConfig)
    visited,        \* crawl(): visited
    docs,           \* crawl(): docs
    q,              \* crawl(): q (FIFO queue)
    pc,             \* position inside crawl()
    url,            \* crawl(): url of the current iteration
    response,       \* crawl(): Content-Type header of the current response
    corpus,         \* value returned by crawl()
    fetched,        \* history: URLs on which session.get was called, in order
    linked,         \* history: links put on the queue by the html branch
    failed,         \* history: URLs whose fetch raised RequestException
    seen,           \* history: absolute links found on parsed pages
    depth,          \* history: link distance at which a URL was first enqueued
    skipped,        \* history: number of dequeues of an already visited URL
    \* ---- LLMOrchestrator ----
    llm_client_arg, \* LLMOrchestrator(llm_client=...): the argument
    llm_client,     \* self.llm_client
    documents,      \* build_blueprint(): documents
    title,          \* build_blueprint(): title
    prompt,         \* build_blueprint(): prompt
    blueprint,      \* build_blueprint(): blueprint
    bpc,            \* position inside build_blueprint()
    error,          \* exception leaving build_blueprint(), if any
    obtained,       \* history: the blueprint as obtained from a strategy
    calls,          \* history: strategy calls and how each ended, in order
    \* ---- module functions of orchestration/llm.py ----
    fn,             \* the function that was called
    arg,            \* its argument
    extracted,      \* extract_endpoints(arg)
    slug,           \* slugify(arg)
    generated       \* HeuristicLLMClient().generate_blueprint(arg)

crawlVars == <<start_url, config, visited, docs, q, pc, url, response,
               corpus, fetched, linked, failed, seen, depth, skipped>>

buildVars == <<llm_client_arg, llm_client, documents, title, prompt, blueprint, bpc, error,
               obtained, calls>>

pureVars == <<fn, arg, extracted, slug, generated>>

vars == <<crawlVars, buildVars, pureVars>>

\* Python's None, for each type of value that can be None
None == "None"
NoUrl == <<>>
NoResponse == <<>>
NoTitle == <<None>>
NoPrompt == <<>>
NoBlueprint == [name |-> None, summary |-> None, endpoints |-> <<>>,
                prerequisites |-> <<>>]
NoConfig == [max_pages |-> 0, allow_patterns |-> <<>>, deny_patterns |-> <<>>]

(***************************************************************************)
(* Bounds                                                                  *)
(***************************************************************************)
MaxPages == 4       \* largest configured max_pages explored
MaxLinks == 2       \* largest number of anchors on one page
MaxDocs == 2        \* largest number of documents given to build_blueprint
MaxDocTokens == 3   \* largest total number of tokens in the documents

(***************************************************************************)
(* URLs: <<scheme, separator, netloc, path>>                               *)
(***************************************************************************)
Http(host, path) == <<"http", "://", host, path>>
MailUrl == <<"mailto", ":", "", "bob">>

\* the URLs a crawl is started on
StartUrls == {Http("a.com", "/"), Http("a.com", "/x")}

\* the href of an anchor: an absolute URL of another host, a mailto link, or
\* a path relative to the page's host
Hrefs == {Http("b.com", "/"), MailUrl, <<"/x">>, <<"/y">>, <<"/z">>}

\* urlparse(url).netloc
Netloc(u) == IF u[2] = "://" THEN u[3] ELSE ""

\* urljoin(base, href)
UrlJoin(base, href) ==
    IF Len(href) = 4 THEN href
    ELSE <<base[1], base[2], base[3], href[1]>>

\* absolute.startswith("http")
StartsWithHttp(u) == u[1] \in {"http", "https"}

(***************************************************************************)
(* Regular expressions: a pattern is a sequence of literal tokens and      *)
(* STAR (".*"); re.fullmatch must consume the whole string.                *)
(***************************************************************************)
STAR == ".*"

RECURSIVE PrefixMatch(_, _)
PrefixMatch(p, s) ==
    IF p = <<>> THEN TRUE
    ELSE IF Head(p) = STAR
         THEN PrefixMatch(Tail(p), s) \/ (s # <<>> /\ PrefixMatch(p, Tail(s)))
         ELSE s # <<>> /\ Head(s) = Head(p) /\ PrefixMatch(Tail(p), Tail(s))

RECURSIVE FullMatch(_, _)
FullMatch(p, s) ==
    IF p = <<>> THEN s = <<>>
    ELSE IF Head(p) = STAR
         THEN FullMatch(Tail(p), s) \/ (s # <<>> /\ FullMatch(p, Tail(s)))
         ELSE s # <<>> /\ Head(s) = Head(p) /\ FullMatch(Tail(p), Tail(s))

\* any(re.fullmatch(pattern, url) for pattern in patterns)
MatchesAny(patterns, u) ==
    \E i \in 1..Len(patterns) : FullMatch(patterns[i], u)

PAll == <<STAR>>
PHostOnly == <<"http", "://", "a.com">>
PX == <<STAR, "/x">>
PRoot == <<STAR, "/">>

AllowChoices == {<<>>, <<PAll>>, <<PX, PRoot>>, <<PHostOnly>>}
DenyChoices == {<<>>, <<PX>>, <<PRoot, PAll>>}

Configs ==
    [max_pages : 0..MaxPages,
     allow_patterns : AllowChoices,
     deny_patterns : DenyChoices]

(***************************************************************************)
(* DocumentationCrawler._url_allowed                                       *)
(***************************************************************************)
\* variants of the scope check, each with one of its three tests missing
UrlAllowedAnyHost(u) ==
    IF config.allow_patterns # <<>> /\ ~MatchesAny(config.allow_patterns, u)
    THEN FALSE
    ELSE IF MatchesAny(config.deny_patterns, u) THEN FALSE
    ELSE TRUE

UrlAllowedAllowWins(u) ==
    IF Netloc(u) # Netloc(start_url) THEN FALSE
    ELSE IF config.allow_patterns # <<>> /\ MatchesAny(config.allow_patterns, u)
         THEN TRUE
    ELSE IF MatchesAny(config.deny_patterns, u) THEN FALSE
    ELSE TRUE

UrlAllowedNoAllow(u) ==
    IF Netloc(u) # Netloc(start_url) THEN FALSE
    ELSE IF MatchesAny(config.deny_patterns, u) THEN FALSE
    ELSE TRUE

UrlAllowed(u) ==
    IF Netloc(u) # Netloc(start_url) THEN FALSE
    ELSE IF config.allow_patterns # <<>> /\ ~MatchesAny(config.allow_patterns, u)
         THEN FALSE
    ELSE IF MatchesAny(config.deny_patterns, u) THEN FALSE
    ELSE TRUE

(***************************************************************************)
(* Content-Type handling of crawl()                                        *)
(***************************************************************************)
NoHeader == <<"<absent>">>
ContentTypeHeaders ==
    { NoHeader,
      <<"text/html">>,
      <<"text/html", ";", " charset=utf-8">>,
      <<"text/html", "-sandboxed">>,
      <<"application/json">>,
      <<"application/json", ";", " charset=utf-8">>,
      <<"text/plain">>,
      <<"image/png">> }

\* response.headers.get("Content-Type", "text/plain")
HeaderGet(h) == IF h = NoHeader THEN <<"text/plain">> ELSE h

\* s.split(";")[0]
RECURSIVE SplitFirst(_)
SplitFirst(s) ==
    IF s = <<>> \/ Head(s) = ";" THEN <<>>
    ELSE <<Head(s)>> \o SplitFirst(Tail(s))

\* s.startswith(prefix)
StartsWith(s, prefix) ==
    Len(s) >= Len(prefix) /\ SubSeq(s, 1, Len(prefix)) = prefix

ContentType(h) == SplitFirst(HeaderGet(h))

IsHtml(ct) == StartsWith(ct, <<"text/html">>)
IsJson(ct) == ct = <<"application/json">>

\* Document(url=..., content_type=...)
Document(u, ct) == [url |-> u, content_type |-> ct]

\* the links _parse_html returns for a page at u whose anchors are hrefs
ParseHtmlLinks(u, hrefs) ==
    {a \in {UrlJoin(u, h) : h \in hrefs} : StartsWithHttp(a) /\ UrlAllowed(a)}

\* every order in which "for link in discovered" can iterate the set
Orders(S) ==
    {f \in [1..Cardinality(S) -> S] :
        \A i, j \in 1..Cardinality(S) : i # j => f[i] # f[j]}

(***************************************************************************)
(* crawl()                                                                 *)
(***************************************************************************)
\* variant: the cap compared with <= instead of <
LoopConditionOffByOne == q # <<>> /\ Cardinality(visited) <= config.max_pages

\* variant: the loop tests the cap only, and q.get() blocks on an empty queue
LoopConditionCapOnly == Cardinality(visited) < config.max_pages

\* while not q.empty() and len(visited) < self.config.max_pages
LoopCondition == q # <<>> /\ Cardinality(visited) < config.max_pages

\* no crawl is in progress
CrawlIdle ==
    /\ start_url = NoUrl /\ config = NoConfig /\ visited = {} /\ docs = <<>>
    /\ q = <<>> /\ pc = "idle" /\ url = NoUrl /\ response = NoResponse
    /\ corpus = <<>> /\ fetched = <<>> /\ linked = {} /\ failed = {}
    /\ seen = {} /\ depth = <<>> /\ skipped = 0

\* no build_blueprint call is in progress
BuildIdle ==
    /\ llm_client_arg = None /\ llm_client = None
    /\ documents = <<>> /\ title = NoTitle
    /\ prompt = NoPrompt /\ blueprint = NoBlueprint /\ bpc = "idle"
    /\ error = None /\ obtained = NoBlueprint /\ calls = <<>>

\* no module function was called
PureIdle ==
    /\ fn = "idle" /\ arg = <<>> /\ extracted = <<>> /\ slug = <<>>
    /\ generated = NoBlueprint

Init ==
    /\ start_url \in StartUrls
    /\ config \in Configs
    /\ visited = {}
    /\ docs = <<>>
    /\ q = <<start_url>>
    /\ pc = "loop"
    /\ url = NoUrl
    /\ response = NoResponse
    /\ corpus = <<>>
    /\ fetched = <<>>
    /\ linked = {}
    /\ failed = {}
    /\ seen = {}
    /\ depth = [u \in {start_url} |-> 0]
    /\ skipped = 0
    /\ BuildIdle
    /\ PureIdle

\* variant: the "continue" is missing and the visited URL is fetched again
DequeueVisitedRefetches ==
    /\ pc = "loop" /\ LoopCondition
    /\ q # <<>> /\ Head(q) \in visited
    /\ q' = Tail(q)
    /\ url' = Head(q)
    /\ skipped' = skipped + 1
    /\ pc' = "fetch"
    /\ UNCHANGED <<start_url, config, visited, docs, response, corpus,
                   fetched, linked, failed, seen,
                   depth, buildVars, pureVars>>

\* url = q.get(); if url in visited: continue
DequeueVisited ==
    /\ pc = "loop" /\ LoopCondition
    /\ q # <<>> /\ Head(q) \in visited
    /\ q' = Tail(q)
    /\ url' = Head(q)
    /\ skipped' = skipped + 1
    /\ UNCHANGED <<start_url, config, visited, docs, pc, response, corpus,
                   fetched, linked, failed, seen,
                   depth, buildVars, pureVars>>

\* visited.add(url); if not self._url_allowed(url): continue
DequeueDisallowed ==
    /\ pc = "loop" /\ LoopCondition
    /\ q # <<>> /\ Head(q) \notin visited
    /\ ~UrlAllowed(Head(q))
    /\ q' = Tail(q)
    /\ url' = Head(q)
    /\ visited' = visited \cup {Head(q)}
    /\ UNCHANGED <<start_url, config, docs, pc, response, corpus,
                   fetched, linked, failed, seen,
                   depth, skipped, buildVars, pureVars>>

\* visited.add(url); the url passes the scope check and is about to be fetched
DequeueAllowed ==
    /\ pc = "loop" /\ LoopCondition
    /\ q # <<>> /\ Head(q) \notin visited
    /\ UrlAllowed(Head(q))
    /\ q' = Tail(q)
    /\ url' = Head(q)
    /\ visited' = visited \cup {Head(q)}
    /\ pc' = "fetch"
    /\ UNCHANGED <<start_url, config, docs, response, corpus,
                   fetched, linked, failed, seen,
                   depth, skipped, buildVars, pureVars>>

\* variant: a failed fetch still records a Document for the page
FetchFailKeepsPage ==
    /\ pc = "fetch"
    /\ fetched' = Append(fetched, url)
    /\ failed' = failed \cup {url}
    /\ docs' = Append(docs, Document(url, "text/html"))
    /\ pc' = "loop"
    /\ UNCHANGED <<start_url, config, visited, q, url, response,
                   corpus, linked, seen,
                   depth, skipped, buildVars, pureVars>>

\* session.get / raise_for_status raised requests.RequestException
FetchFail ==
    /\ pc = "fetch"
    /\ fetched' = Append(fetched, url)
    /\ failed' = failed \cup {url}
    /\ pc' = "loop"
    /\ UNCHANGED <<start_url, config, visited, docs, q, url, response,
                   corpus, linked, seen,
                   depth, skipped, buildVars, pureVars>>

\* session.get returned a success response
FetchOk ==
    /\ pc = "fetch"
    /\ \E h \in ContentTypeHeaders : response' = h
    /\ fetched' = Append(fetched, url)
    /\ pc' = "dispatch"
    /\ UNCHANGED <<start_url, config, visited, docs, q, url, corpus,
                   linked, failed, seen,
                   depth, skipped, buildVars, pureVars>>

\* variant: discovered links are put at the head of the queue
DispatchHtmlPushesFront ==
    /\ pc = "dispatch"
    /\ IsHtml(ContentType(response))
    /\ \E hrefs \in SUBSET Hrefs :
         /\ Cardinality(hrefs) <= MaxLinks
         /\ LET new == ParseHtmlLinks(url, hrefs) \ visited IN
            /\ \E order \in Orders(new) : q' = order \o q
            /\ linked' = linked \cup new
            /\ depth' = [u \in DOMAIN depth \cup new |->
                            IF u \in DOMAIN depth THEN depth[u]
                            ELSE depth[url] + 1]
         /\ seen' = seen \cup {UrlJoin(url, h) : h \in hrefs}
    /\ docs' = Append(docs, Document(url, "text/html"))
    /\ response' = NoResponse
    /\ pc' = "loop"
    /\ UNCHANGED <<start_url, config, visited, url, corpus, fetched, failed,
                   skipped, buildVars, pureVars>>

\* content_type.startswith("text/html")
DispatchHtml ==
    /\ pc = "dispatch"
    /\ IsHtml(ContentType(response))
    /\ \E hrefs \in SUBSET Hrefs :
         /\ Cardinality(hrefs) <= MaxLinks
         /\ LET new == ParseHtmlLinks(url, hrefs) \ visited IN
            /\ \E order \in Orders(new) : q' = q \o order
            /\ linked' = linked \cup new
            /\ depth' = [u \in DOMAIN depth \cup new |->
                            IF u \in DOMAIN depth THEN depth[u]
                            ELSE depth[url] + 1]
         /\ seen' = seen \cup {UrlJoin(url, h) : h \in hrefs}
    /\ docs' = Append(docs, Document(url, "text/html"))
    /\ response' = NoResponse
    /\ pc' = "loop"
    /\ UNCHANGED <<start_url, config, visited, url, corpus, fetched, failed,
                   skipped, buildVars, pureVars>>

\* variant: the json Document is put in front of the list
DispatchJsonPrepends ==
    /\ pc = "dispatch"
    /\ ~IsHtml(ContentType(response))
    /\ IsJson(ContentType(response))
    /\ docs' = <<Document(url, ContentType(response))>> \o docs
    /\ response' = NoResponse
    /\ pc' = "loop"
    /\ UNCHANGED <<start_url, config, visited, q, url, corpus, fetched,
                   linked, failed, seen,
                   depth, skipped, buildVars, pureVars>>

\* content_type == "application/json"
DispatchJson ==
    /\ pc = "dispatch"
    /\ ~IsHtml(ContentType(response))
    /\ IsJson(ContentType(response))
    /\ docs' = Append(docs, Document(url, ContentType(response)))
    /\ response' = NoResponse
    /\ pc' = "loop"
    /\ UNCHANGED <<start_url, config, visited, q, url, corpus, fetched,
                   linked, failed, seen,
                   depth, skipped, buildVars, pureVars>>

\* unsupported content type
DispatchOther ==
    /\ pc = "dispatch"
    /\ ~IsHtml(ContentType(response))
    /\ ~IsJson(ContentType(response))
    /\ response' = NoResponse
    /\ pc' = "loop"
    /\ UNCHANGED <<start_url, config, visited, docs, q, url, corpus,
                   fetched, linked, failed, seen,
                   depth, skipped, buildVars, pureVars>>

\* return Corpus(documents=docs)
Return ==
    /\ pc = "loop" /\ ~LoopCondition
    /\ corpus' = docs
    /\ pc' = "done"
    /\ UNCHANGED <<start_url, config, visited, docs, q, url, response,
                   fetched, linked, failed, seen,
                   depth, skipped, buildVars, pureVars>>

Next ==
    \/ DequeueVisited
    \/ DequeueDisallowed
    \/ DequeueAllowed
    \/ FetchFail
    \/ FetchOk
    \/ DispatchHtml
    \/ DispatchJson
    \/ DispatchOther
    \/ Return

Spec == Init /\ [][Next]_vars

\* crawl() runs in one thread and every call it makes returns or raises
\* (session.get has a timeout): a step that can be taken is taken
FairSpec == Spec /\ WF_vars(Next)

(***************************************************************************)
(* Text: character classes of the tokens                                   *)
(***************************************************************************)
\* str.upper / str.lower on a token
Upper(t) ==
    CASE t \in {"GET", "Get", "get"} -> "GET"
      [] t \in {"POST", "post"} -> "POST"
      [] t \in {"DELETE", "delete"} -> "DELETE"
      [] t \in {"X", "x"} -> "X"
      [] t \in {"U+00C9", "U+00E9"} -> "U+00C9"
      [] OTHER -> t

Lower(t) ==
    CASE t \in {"GET", "Get", "get"} -> "get"
      [] t \in {"POST", "post"} -> "post"
      [] t \in {"DELETE", "delete"} -> "delete"
      [] t \in {"X", "x"} -> "x"
      [] t \in {"U+00C9", "U+00E9"} -> "U+00E9"
      [] OTHER -> t

\* GET|POST|PUT|PATCH|DELETE|OPTIONS|HEAD with re.IGNORECASE
MethodWords == {"GET", "POST", "PUT", "PATCH", "DELETE", "OPTIONS", "HEAD"}
\* the pattern has no word boundary in front of the method: it also matches
\* the end of a longer word ("budget /x" holds "get /x")
MethodPart(t) == IF t = "budget" THEN "get" ELSE t
IsMethod(t) == Upper(MethodPart(t)) \in MethodWords

\* \s
IsSpace(t) == t \in {" ", "\n", "\n\n"}

\* tokens made of punctuation; every other non-space token is a run of
\* letters and digits
Punctuation == {"/", "-", "{", "}", ".", ":", ",", "(", ")", "_"}
IsWord(t) == ~IsSpace(t) /\ t \notin Punctuation

\* [\w\-/{}.:]
IsPathChar(t) == IsWord(t) \/ t \in {"_", "-", "/", "{", "}", ".", ":"}

\* word tokens of letters outside ASCII (E acute, e acute): \w matches them,
\* [a-z0-9] does not
NonAscii == {"U+00C9", "U+00E9"}

\* [a-z0-9] after lower-casing
IsSlugChar(t) == IsWord(t) /\ t \notin NonAscii

(***************************************************************************)
(* slugify                                                                 *)
(***************************************************************************)
LowerAll(s) == [i \in 1..Len(s) |-> Lower(s[i])]

RECURSIVE DropWhileNotSlug(_)
DropWhileNotSlug(s) ==
    IF s = <<>> \/ IsSlugChar(Head(s)) THEN s ELSE DropWhileNotSlug(Tail(s))

\* re.sub(r"[^a-z0-9]+", "_", value)
RECURSIVE SubNonSlug(_)
SubNonSlug(s) ==
    IF s = <<>> THEN <<>>
    ELSE IF IsSlugChar(Head(s)) THEN <<Head(s)>> \o SubNonSlug(Tail(s))
    ELSE <<"_">> \o SubNonSlug(DropWhileNotSlug(Tail(s)))

RECURSIVE DropUnderscores(_)
DropUnderscores(s) ==
    IF s = <<>> \/ Head(s) # "_" THEN s ELSE DropUnderscores(Tail(s))

\* re.sub(r"_+", "_", value)
RECURSIVE SubUnderscores(_)
SubUnderscores(s) ==
    IF s = <<>> THEN <<>>
    ELSE IF Head(s) = "_" THEN <<"_">> \o SubUnderscores(DropUnderscores(Tail(s)))
    ELSE <<Head(s)>> \o SubUnderscores(Tail(s))

RECURSIVE DropTrailingUnderscores(_)
DropTrailingUnderscores(s) ==
    IF s = <<>> \/ s[Len(s)] # "_" THEN s
    ELSE DropTrailingUnderscores(SubSeq(s, 1, Len(s) - 1))

\* variant: value.lstrip("_")
StripLeadingOnly(s) == DropUnderscores(s)

\* value.strip("_")
Strip(s) == DropTrailingUnderscores(DropUnderscores(s))

slugify(value) ==
    LET v == Strip(SubUnderscores(SubNonSlug(LowerAll(value))))
    IN IF v = <<>> THEN <<"endpoint">> ELSE v

(***************************************************************************)
(* extract_endpoints                                                       *)
(***************************************************************************)
EndpointSpec(n, m, p, d) ==
    [name |-> n, method |-> m, path |-> p, description |-> d]

\* number of leading tokens of s that satisfy \s
RECURSIVE SpaceRun(_)
SpaceRun(s) ==
    IF s = <<>> \/ ~IsSpace(Head(s)) THEN 0 ELSE 1 + SpaceRun(Tail(s))

\* number of leading tokens of s that satisfy [\w\-/{}.:]
RECURSIVE PathRun(_)
PathRun(s) ==
    IF s = <<>> \/ ~IsPathChar(Head(s)) THEN 0 ELSE 1 + PathRun(Tail(s))

Drop(s, n) == SubSeq(s, n + 1, Len(s))

\* length of the match of the endpoint pattern at the start of s, 0 if none
MatchLen(s) ==
    IF s = <<>> \/ ~IsMethod(Head(s)) THEN 0
    ELSE LET sp == SpaceRun(Tail(s))
             rest == Drop(s, 1 + sp)
         IN IF sp = 0 \/ rest = <<>> \/ Head(rest) # "/" THEN 0
            ELSE 1 + sp + 1 + PathRun(Tail(rest))

\* variant: the method is stored as written in the text
MatchEndpointKeepsCase(s, n) ==
    LET method == MethodPart(Head(s))
        path == SubSeq(s, 2 + SpaceRun(Tail(s)), n)
    IN EndpointSpec(slugify(<<method, " ">> \o path), method, path,
                    <<"Auto-detected endpoint for ", method, " ">> \o path)

\* the EndpointSpec built from a match of length n at the start of s
MatchEndpoint(s, n) ==
    LET method == Upper(MethodPart(Head(s)))
        path == SubSeq(s, 2 + SpaceRun(Tail(s)), n)
    IN EndpointSpec(slugify(<<method, " ">> \o path), method, path,
                    <<"Auto-detected endpoint for ", method, " ">> \o path)

\* start of the leftmost match of the endpoint pattern in s, 0 if none
FirstMatch(s) ==
    LET starts == {i \in 1..Len(s) : MatchLen(Drop(s, i - 1)) > 0}
    IN IF starts = {} THEN 0
       ELSE CHOOSE i \in starts : \A j \in starts : i <= j

\* for match in endpoint_pattern.finditer(text): endpoints.append(...)
\* finditer yields the leftmost match, then searches on behind its end
RECURSIVE extract_endpoints(_)
extract_endpoints(text) ==
    LET i == FirstMatch(text) IN
    IF i = 0 THEN <<>>
    ELSE LET m == Drop(text, i - 1)
             n == MatchLen(m)
         IN <<MatchEndpoint(m, n)>> \o extract_endpoints(Drop(m, n))

(***************************************************************************)
(* Blueprints and generation strategies                                    *)
(***************************************************************************)
DEFAULT_BLUEPRINT_NAME == "GeneratedMCPServer"

Blueprint(n, s, e, p) ==
    [name |-> n, summary |-> s, endpoints |-> e, prerequisites |-> p]

\* HeuristicLLMClient.generate_blueprint
HeuristicGenerate(p) ==
    Blueprint(DEFAULT_BLUEPRINT_NAME,
              "Heuristically generated MCP server blueprint",
              extract_endpoints(p), <<>>)

\* the synthetic endpoint appended to an empty blueprint
HealthCheck ==
    EndpointSpec(<<"health_check">>, "GET", <<"/">>,
                 <<"Fallback endpoint returning API availability information.">>)

\* what an injected primary strategy may return
PrimaryBlueprints ==
    { Blueprint("Remote", "Generated MCP server", <<>>, <<"Set API_KEY">>),
      Blueprint("Remote", "Generated MCP server",
                <<EndpointSpec(<<"list_items">>, "get", <<"/", "items">>, <<>>)>>,
                <<>>) }

\* what an injected primary strategy may raise; all derive from Exception
ErrorKinds == {"ConnectionError", "ValueError"}

\* variant: the handler catches parse errors only
CatchesValueErrorOnly(e) == e = "ValueError"

\* except Exception
Catches(e) == e \in {"ConnectionError", "ValueError", "RuntimeError", "KeyError"}

(***************************************************************************)
(* LLMOrchestrator._build_prompt                                           *)
(***************************************************************************)
\* variant: the instructions show an example endpoint
PreambleWithExample ==
    <<"You", " ", "are", " ", "an", " ", "expert", ".", " ",
      "Given", " ", "documentation", ",", " ", "extract", " ", "endpoints",
      " ", "like", " ", "GET", " ", "/", "users", ".">>

\* the fixed instruction block, abridged: the words, spaces, brackets, braces
\* and punctuation of the source string in their order; like the source
\* string it contains no "/" and no HTTP method word
Preamble ==
    <<"You", " ", "are", " ", "an", " ", "expert", " ", "(", "MCP", ")", " ",
      "servers", ".", " ",
      "Given", " ", "documentation", ",", " ", "extract", " ", "endpoints",
      " ", "fields", ":", " ", "name", " ", "(", "string", ")", ",", " ",
      "endpoints", " ", "(", "list", " ", "of", " ",
      "{", "name", ",", " ", "method", ",", " ", "path", ",", " ",
      "description", "}", ")", ",", " ", "and", " ", "prerequisites", " ",
      "(", "auth", " ", "or", " ", "setup", ")", ".">>

\* "\n\n".join(documents)
RECURSIVE Join(_)
Join(ds) ==
    IF ds = <<>> THEN <<>>
    ELSE IF Len(ds) = 1 THEN ds[1]
    ELSE ds[1] \o <<"\n\n">> \o Join(Tail(ds))

\* if title: prompt += f"\nDocumentation title: {title}"
TitleLine(t) ==
    IF t = NoTitle \/ t = <<>> THEN <<>>
    ELSE <<"\n", "Documentation", " ", "title", ":", " ">> \o t

BuildPromptOf(ds, t) ==
    Preamble \o TitleLine(t) \o <<"\n\n", "Documentation", ":", "\n">> \o Join(ds)

(***************************************************************************)
(* Inputs of build_blueprint                                               *)
(***************************************************************************)
DocTokens == {"GET", "post", " ", "/"}

TokenSeqs(n) == UNION {[1..k -> DocTokens] : k \in 0..n}

\* lists of exactly k documents with at most n tokens in total
RECURSIVE ListsOf(_, _)
ListsOf(k, n) ==
    IF k = 0 THEN {<<>>}
    ELSE UNION {{<<d>> \o rest : rest \in ListsOf(k - 1, n - Len(d))} :
                  d \in TokenSeqs(n)}

DocLists == UNION {ListsOf(k, MaxDocTokens) : k \in 0..MaxDocs}

Titles == {NoTitle, <<>>, <<"Users", " ", "API">>, <<"get", " ", "/", "x", ",", "y">>}

(***************************************************************************)
(* LLMOrchestrator                                                         *)
(***************************************************************************)
\* variant: self.llm_client = llm_client or OpenAILLMClient()
ClientOrRemote(injected) == IF injected = None THEN "remote" ELSE injected

\* __init__: self.llm_client = llm_client or HeuristicLLMClient()
ClientOrDefault(injected) == IF injected = None THEN "heuristic" ELSE injected

BuildInit ==
    /\ llm_client_arg \in {None, "injected"}
    /\ llm_client = ClientOrDefault(llm_client_arg)
    /\ documents = <<>>
    /\ title = NoTitle
    /\ prompt = NoPrompt
    /\ blueprint = NoBlueprint
    /\ bpc = "start"
    /\ error = None
    /\ obtained = NoBlueprint
    /\ calls = <<>>
    /\ CrawlIdle
    /\ PureIdle

\* build_blueprint(documents, title) is called:
\* prompt = self._build_prompt(documents, title)
BuildPrompt ==
    /\ bpc = "start"
    /\ \E ds \in DocLists, t \in Titles :
         /\ documents' = ds
         /\ title' = t
         /\ prompt' = BuildPromptOf(ds, t)
    /\ bpc' = "primary"
    /\ UNCHANGED <<llm_client_arg, llm_client, blueprint, error, obtained,
                   calls, crawlVars, pureVars>>

\* self.llm_client.generate_blueprint(prompt), the default heuristic client
PrimaryHeuristic ==
    /\ bpc = "primary"
    /\ llm_client = "heuristic"
    /\ blueprint' = HeuristicGenerate(prompt)
    /\ obtained' = blueprint'
    /\ calls' = Append(calls, <<"primary", "returned">>)
    /\ bpc' = "repair"
    /\ UNCHANGED <<llm_client_arg, llm_client, documents, title, prompt,
                   error, crawlVars, pureVars>>

\* variant: the fallback also runs after the primary strategy returned
PrimaryReturnThenFallback ==
    /\ bpc = "primary"
    /\ llm_client = "injected"
    /\ \E bp \in PrimaryBlueprints : blueprint' = bp
    /\ obtained' = blueprint'
    /\ calls' = Append(calls, <<"primary", "returned">>)
    /\ bpc' = "fallback"
    /\ UNCHANGED <<llm_client_arg, llm_client, documents, title, prompt,
                   error, crawlVars, pureVars>>

\* self.llm_client.generate_blueprint(prompt) returns a Blueprint
PrimaryReturn ==
    /\ bpc = "primary"
    /\ llm_client = "injected"
    /\ \E bp \in PrimaryBlueprints : blueprint' = bp
    /\ obtained' = blueprint'
    /\ calls' = Append(calls, <<"primary", "returned">>)
    /\ bpc' = "repair"
    /\ UNCHANGED <<llm_client_arg, llm_client, documents, title, prompt,
                   error, crawlVars, pureVars>>

\* self.llm_client.generate_blueprint(prompt) raises
PrimaryRaise ==
    /\ bpc = "primary"
    /\ llm_client = "injected"
    /\ \E e \in ErrorKinds :
         IF Catches(e)
         THEN bpc' = "fallback" /\ error' = error
         ELSE bpc' = "raised" /\ error' = e
    /\ calls' = Append(calls, <<"primary", "raised">>)
    /\ UNCHANGED <<llm_client_arg, llm_client, documents, title, prompt,
                   blueprint, obtained,
                   crawlVars, pureVars>>

\* variant: the fallback scans the joined documents instead of the prompt
FallbackOnDocuments ==
    /\ bpc = "fallback"
    /\ blueprint' = HeuristicGenerate(Join(documents))
    /\ obtained' = blueprint'
    /\ calls' = Append(calls, <<"fallback", "returned">>)
    /\ bpc' = "repair"
    /\ UNCHANGED <<llm_client_arg, llm_client, documents, title, prompt,
                   error, crawlVars, pureVars>>

\* blueprint = HeuristicLLMClient().generate_blueprint(prompt)
Fallback ==
    /\ bpc = "fallback"
    /\ blueprint' = HeuristicGenerate(prompt)
    /\ obtained' = blueprint'
    /\ calls' = Append(calls, <<"fallback", "returned">>)
    /\ bpc' = "repair"
    /\ UNCHANGED <<llm_client_arg, llm_client, documents, title, prompt,
                   error, crawlVars, pureVars>>

\* variant: the blueprint is returned as obtained
BuildReturnNoRepair ==
    /\ bpc = "repair"
    /\ bpc' = "returned"
    /\ UNCHANGED <<llm_client_arg, llm_client, documents, title, prompt,
                   blueprint, error,
                   obtained, calls, crawlVars, pureVars>>

\* variant: the health check is appended to every blueprint
BuildReturnAlwaysAppends ==
    /\ bpc = "repair"
    /\ blueprint' = [blueprint EXCEPT !.endpoints = Append(@, HealthCheck)]
    /\ bpc' = "returned"
    /\ UNCHANGED <<llm_client_arg, llm_client, documents, title, prompt,
                   error, obtained, calls, crawlVars, pureVars>>

\* if not blueprint.endpoints: blueprint.endpoints.append(...); return blueprint
BuildReturn ==
    /\ bpc = "repair"
    /\ blueprint' =
         IF blueprint.endpoints = <<>>
         THEN [blueprint EXCEPT !.endpoints = Append(@, HealthCheck)]
         ELSE blueprint
    /\ bpc' = "returned"
    /\ UNCHANGED <<llm_client_arg, llm_client, documents, title, prompt,
                   error, obtained,
                   calls, crawlVars, pureVars>>

BuildNext ==
    \/ BuildPrompt
    \/ PrimaryHeuristic
    \/ PrimaryReturn
    \/ PrimaryRaise
    \/ Fallback
    \/ BuildReturn

BuildSpec == BuildInit /\ [][BuildNext]_vars

(***************************************************************************)
(* Calls of the module functions extract_endpoints, slugify and of         *)
(* HeuristicLLMClient.generate_blueprint on bounded texts                  *)
(***************************************************************************)
MaxTextLen == 4

SeqsOver(S, n) == UNION {[1..k -> S] : k \in 0..n}

\* "GET /users POST /users DELETE /users/{id}"
ThreeEndpoints ==
    <<"GET", " ", "/", "users", " ", "POST", " ", "/", "users", " ",
      "DELETE", " ", "/", "users", "/", "{", "id", "}">>

\* "GET /items"
GetItems == <<"GET", " ", "/", "items">>

\* "post /x POST /x"
RepeatedEndpoint == <<"post", " ", "/", "x", " ", "POST", " ", "/", "x">>

EndpointTexts ==
    SeqsOver({"GET", "post", "budget", " ", "/", "x", ","}, MaxTextLen)
        \cup {ThreeEndpoints, GetItems, RepeatedEndpoint}

SlugInputs ==
    SeqsOver({"Get", "x", "_", " ", "/", "U+00C9"}, MaxTextLen)
        \cup {ThreeEndpoints, GetItems}

PureInit == CrawlIdle /\ BuildIdle /\ PureIdle

\* endpoints = extract_endpoints(text)
CallExtractEndpoints ==
    /\ fn = "idle"
    /\ \E t \in EndpointTexts :
         /\ arg' = t
         /\ extracted' = extract_endpoints(t)
    /\ fn' = "extract_endpoints"
    /\ UNCHANGED <<slug, generated, crawlVars, buildVars>>

\* slugify(value)
CallSlugify ==
    /\ fn = "idle"
    /\ \E t \in SlugInputs :
         /\ arg' = t
         /\ slug' = slugify(t)
    /\ fn' = "slugify"
    /\ UNCHANGED <<extracted, generated, crawlVars, buildVars>>

\* HeuristicLLMClient().generate_blueprint(prompt)
CallGenerateBlueprint ==
    /\ fn = "idle"
    /\ \E t \in EndpointTexts :
         /\ arg' = t
         /\ generated' = HeuristicGenerate(t)
    /\ fn' = "generate_blueprint"
    /\ UNCHANGED <<extracted, slug, crawlVars, buildVars>>

PureNext ==
    \/ CallExtractEndpoints
    \/ CallSlugify
    \/ CallGenerateBlueprint

PureSpec == PureInit /\ [][PureNext]_vars

(***************************************************************************)
(* Properties of the crawler                                               *)
(***************************************************************************)
Range(s) == {s[i] : i \in 1..Len(s)}

SameHost(u) == Netloc(u) = Netloc(start_url)

\* C1: in every state of a crawl the number of distinct visited URLs is at
\* most the configured max_pages; a URL is visited as soon as it is dequeued
\* for the first time, fetched or not.
C1_VisitedWithinCap == Cardinality(visited) <= config.max_pages

\* the cap stopped a crawl that still had URLs queued
C1_Witness ==
    /\ pc = "done"
    /\ q # <<>>
    /\ config.max_pages > 0
    /\ Cardinality(visited) = config.max_pages

\* C2: every URL on which an HTTP GET is issued has the netloc of the
\* start URL.
C2_FetchedSameHost == \A u \in Range(fetched) : SameHost(u)

\* a parsed page linked to another host and the crawl went on fetching
C2_Witness ==
    /\ pc = "done"
    /\ Len(fetched) >= 2
    /\ \E u \in seen : StartsWithHttp(u) /\ ~SameHost(u)

\* C3: a URL that fully matches a deny pattern is never fetched and never
\* enqueued as a discovered link, even when it matches an allow pattern.
C3_DenyPrecedence ==
    \A u \in Range(fetched) \cup linked : ~MatchesAny(config.deny_patterns, u)

\* a same-host link matching both an allow and a deny pattern was found on a
\* fetched page, and the crawl finished
C3_Witness ==
    /\ pc = "done"
    /\ \E u \in seen :
         /\ StartsWithHttp(u) /\ SameHost(u)
         /\ MatchesAny(config.allow_patterns, u)
         /\ MatchesAny(config.deny_patterns, u)

\* C4 as stated: for every set of allow patterns, a URL is fetched only if it
\* fully matches at least one allow pattern of the set.
C4_FetchedMatchesAllow ==
    \A u \in Range(fetched) : MatchesAny(config.allow_patterns, u)

\* C4 amended: for every non-empty set of allow patterns a URL is fetched only
\* if it fully matches one of them; with an empty set the allow test is
\* skipped and every dequeued same-host URL matching no deny pattern is
\* fetched.
C4_FetchedMatchesNonEmptyAllow ==
    /\ config.allow_patterns # <<>> =>
         \A u \in Range(fetched) : MatchesAny(config.allow_patterns, u)
    /\ config.allow_patterns = <<>> =>
         \A u \in visited :
            (SameHost(u) /\ ~MatchesAny(config.deny_patterns, u)) =>
               (u \in Range(fetched) \/ (pc = "fetch" /\ u = url))

\* with a non-empty allow set, a same-host link that matches no allow and no
\* deny pattern was found on a fetched page and the crawl finished
C4_Witness ==
    /\ pc = "done"
    /\ config.allow_patterns # <<>>
    /\ \E u \in seen :
         /\ StartsWithHttp(u) /\ SameHost(u)
         /\ ~MatchesAny(config.allow_patterns, u)
         /\ ~MatchesAny(config.deny_patterns, u)

\* C9: a failed fetch leaves the document list and the queue unchanged and
\* returns to the loop; no Document of a URL whose fetch failed is ever in the
\* document list or the returned Corpus.
C9_FailedFetchSkipsPage ==
    /\ [][(pc = "fetch" /\ failed' # failed) =>
            (docs' = docs /\ q' = q /\ pc' = "loop")]_vars
    /\ [](\A u \in failed :
            /\ \A i \in 1..Len(docs) : docs[i].url # u
            /\ \A i \in 1..Len(corpus) : corpus[i].url # u)

\* two pages failed, another page was kept, and the crawl returned
C9_Witness ==
    /\ pc = "done"
    /\ Cardinality(failed) >= 2
    /\ Len(corpus) >= 1

\* the media type of a response: the header value up to the first ";"
PrimaryMime(h) == SplitFirst(HeaderGet(h))

\* C10: only a text/html response adds links to the queue; an
\* application/json response appends exactly one Document and leaves the
\* queue unchanged; any other content type leaves documents and queue
\* unchanged.
C10_ContentTypeDispatch ==
    [][pc = "dispatch" =>
         /\ q' # q => PrimaryMime(response) = <<"text/html">>
         /\ PrimaryMime(response) = <<"application/json">> =>
              (Len(docs') = Len(docs) + 1 /\ q' = q)
         /\ PrimaryMime(response) \notin {<<"text/html">>, <<"application/json">>} =>
              (docs' = docs /\ q' = q)]_vars

(***************************************************************************)
(* Properties of the orchestrator                                          *)
(***************************************************************************)
IsBlueprint(b) == b.name # None /\ b.summary # None

PrimaryRaised == calls # <<>> /\ calls[1] = <<"primary", "raised">>

\* the heuristic strategy produced the blueprint, as primary or as fallback
HeuristicProduced == llm_client = "heuristic" \/ PrimaryRaised

\* C5: build_blueprint never raises to its caller: whatever the documents,
\* the title and the primary strategy's behaviour (returning a Blueprint or
\* raising), no exception leaves the call: the call is never in the position
\* of an escaped exception, it can take a step in every position before the
\* return, and what it returns is a Blueprint.
C5_NeverRaises ==
    /\ bpc # "raised"
    /\ error = None
    /\ bpc # "returned" =>
         \/ bpc \in {"start", "fallback", "repair"}
         \/ bpc = "primary" /\ llm_client \in {"heuristic", "injected"}
    /\ bpc = "returned" => IsBlueprint(blueprint)

\* the primary strategy raised a network error and a Blueprint was returned
C5_Witness ==
    /\ bpc = "returned"
    /\ PrimaryRaised
    /\ Len(calls) = 2
    /\ IsBlueprint(blueprint)

\* C6: every Blueprint returned by build_blueprint has at least one endpoint.
C6_ReturnedHasEndpoint ==
    bpc = "returned" => Len(blueprint.endpoints) >= 1

\* an injected primary returned a Blueprint without endpoints
C6_Witness ==
    /\ bpc = "returned"
    /\ llm_client = "injected"
    /\ ~PrimaryRaised
    /\ obtained.endpoints = <<>>

\* C7 as stated: when the primary strategy fails, build_blueprint returns the
\* result of the heuristic strategy run on the constructed prompt.
C7_FallbackEqualsHeuristic ==
    (bpc = "returned" /\ PrimaryRaised) =>
        blueprint = HeuristicGenerate(BuildPromptOf(documents, title))

\* C7 amended: when the primary strategy fails, build_blueprint returns the
\* result of the heuristic strategy run on the constructed prompt, with the
\* health_check endpoint as its only endpoint when that result has none.
C7_FallbackEqualsRepairedHeuristic ==
    (bpc = "returned" /\ PrimaryRaised) =>
        LET h == HeuristicGenerate(BuildPromptOf(documents, title)) IN
        /\ blueprint.name = h.name
        /\ blueprint.summary = h.summary
        /\ blueprint.prerequisites = h.prerequisites
        /\ blueprint.endpoints =
             IF h.endpoints = <<>> THEN <<HealthCheck>> ELSE h.endpoints

\* the primary failed and the fallback found an endpoint in the title line
\* of the prompt that is not in the documents
C7_Witness ==
    /\ bpc = "returned"
    /\ PrimaryRaised
    /\ extract_endpoints(Join(documents)) = <<>>
    /\ Len(blueprint.endpoints) >= 1
    /\ blueprint.endpoints[1] # HealthCheck

\* C8 as stated: when no document contains a method/path token and the
\* heuristic strategy produces the blueprint, the returned endpoint list is
\* exactly (health_check, GET, /).
C8_NoTokenInDocuments ==
    (/\ bpc = "returned"
     /\ HeuristicProduced
     /\ \A i \in 1..Len(documents) : extract_endpoints(documents[i]) = <<>>)
    => blueprint.endpoints = <<HealthCheck>>

\* C8 amended: when neither the title nor the documents joined by blank
\* lines contain a method/path token and the heuristic strategy produces the
\* blueprint, the returned endpoint list is exactly (health_check, GET, /);
\* the instruction preamble and the prompt's fixed labels contribute none.
C8_NoTokenInTitleAndJoinedDocuments ==
    (/\ bpc = "returned"
     /\ HeuristicProduced
     /\ extract_endpoints(TitleLine(title)) = <<>>
     /\ extract_endpoints(Join(documents)) = <<>>)
    => blueprint.endpoints = <<HealthCheck>>

\* documents and a title without a token went through the heuristic strategy
C8_Witness ==
    /\ bpc = "returned"
    /\ HeuristicProduced
    /\ Len(documents) = 2
    /\ Join(documents) # <<"\n\n">>
    /\ title = <<"Users", " ", "API">>
    /\ extract_endpoints(Join(documents)) = <<>>
    /\ blueprint.endpoints = <<HealthCheck>>

(***************************************************************************)
(* Further properties of the crawler                                       *)
(***************************************************************************)
\* position of u in the sequence s, 0 if absent
IndexOf(s, u) ==
    IF \E i \in 1..Len(s) : s[i] = u
    THEN CHOOSE i \in 1..Len(s) : s[i] = u /\ \A j \in 1..(i - 1) : s[j] # u
    ELSE 0

\* C11: the Corpus lists Documents in crawl completion order: the document
\* list only grows by appending at its end, a Document for u precedes a
\* Document for v exactly when u was processed before v, and the returned
\* Corpus is that list.
C11_CompletionOrder ==
    /\ [][docs' = docs \/
          (Len(docs') = Len(docs) + 1 /\ SubSeq(docs', 1, Len(docs)) = docs)]_vars
    /\ [](\A i, j \in 1..Len(docs) :
            i < j <=> IndexOf(fetched, docs[i].url) < IndexOf(fetched, docs[j].url))
    /\ [](\A i \in 1..Len(docs) : IndexOf(fetched, docs[i].url) > 0)
    /\ [](pc = "done" => corpus = docs)

\* a crawl returned two Documents, and the page processed between them left
\* none
C11_Witness ==
    /\ pc = "done"
    /\ Len(corpus) = 2
    /\ Len(fetched) = 3
    /\ corpus[1].url = fetched[1]
    /\ corpus[2].url = fetched[3]

(***************************************************************************)
(* Properties of extract_endpoints and slugify                             *)
(***************************************************************************)
\* t[i..e] is a token 'method, whitespace, /path' whose path is t[s..e] and
\* cannot be extended
OccursAt(t, i, s, e) ==
    /\ IsMethod(t[i])
    /\ s > i + 1
    /\ \A j \in (i + 1)..(s - 1) : IsSpace(t[j])
    /\ t[s] = "/"
    /\ e >= s
    /\ \A j \in (s + 1)..e : IsPathChar(t[j])
    /\ e = Len(t) \/ ~IsPathChar(t[e + 1])

\* <<i, s, e>> of the token that starts at i, <<>> if none starts there
OccurrenceAt(t, i) ==
    LET found == {x \in (i..Len(t)) \X (i..Len(t)) : OccursAt(t, i, x[1], x[2])}
    IN IF found = {} THEN <<>>
       ELSE LET x == CHOOSE y \in found : TRUE IN <<i, x[1], x[2]>>

\* the tokens of t from position i on, left to right, each beginning behind
\* the end of the one before
RECURSIVE Occurrences(_, _)
Occurrences(t, i) ==
    IF i > Len(t) THEN <<>>
    ELSE LET o == OccurrenceAt(t, i) IN
         IF o = <<>> THEN Occurrences(t, i + 1)
         ELSE <<o>> \o Occurrences(t, o[3] + 1)

\* the list r holds one EndpointSpec per token of t, in the order of the
\* tokens, each with the upper-cased method and the path of its token
OnePerOccurrence(r, t) ==
    LET occ == Occurrences(t, 1) IN
    /\ Len(r) = Len(occ)
    /\ \A k \in 1..Len(occ) :
         /\ r[k].method = Upper(MethodPart(t[occ[k][1]]))
         /\ r[k].method \in MethodWords
         /\ r[k].path = SubSeq(t, occ[k][2], occ[k][3])
         /\ r[k].name = slugify(<<r[k].method, " ">> \o r[k].path)

\* C12: extract_endpoints returns one EndpointSpec per occurrence of a
\* 'method whitespace /path' token, left to right, method upper-cased,
\* repeats kept; the heuristic blueprint of a text with such a token is
\* non-empty and its first endpoint carries the path of the first token.
C12_OnePerOccurrence ==
    /\ fn = "extract_endpoints" => OnePerOccurrence(extracted, arg)
    /\ (fn = "extract_endpoints" /\ arg = ThreeEndpoints) =>
         /\ Len(extracted) = 3
         /\ extracted[1].method = "GET" /\ extracted[1].path = <<"/", "users">>
         /\ extracted[2].method = "POST" /\ extracted[2].path = <<"/", "users">>
         /\ extracted[3].method = "DELETE"
         /\ extracted[3].path = <<"/", "users", "/", "{", "id", "}">>
    /\ (fn = "generate_blueprint" /\ Occurrences(arg, 1) # <<>>) =>
         /\ generated.endpoints # <<>>
         /\ LET o == Occurrences(arg, 1)[1]
            IN generated.endpoints[1].path = SubSeq(arg, o[2], o[3])

\* a text with the same token twice, once in lower case
C12_Witness ==
    /\ fn = "extract_endpoints"
    /\ arg = RepeatedEndpoint
    /\ Len(extracted) = 2
    /\ extracted[1] = extracted[2]
    /\ extracted[1].method = "POST"

\* the strictly increasing enumeration of a set of positions
SortedSeq(S) ==
    CHOOSE f \in [1..Cardinality(S) -> S] :
        \A i, j \in 1..Cardinality(S) : i < j => f[i] < f[j]

\* the slug r is what the description of slugify prescribes for value
IsSlugOf(r, value) ==
    LET kept == SortedSeq({i \in 1..Len(value) : IsSlugChar(Lower(value[i]))})
        at == SortedSeq({i \in 1..Len(r) : r[i] # "_"})
    IN IF kept = <<>> THEN r = <<"endpoint">>
       ELSE /\ Len(at) = Len(kept)
            /\ \A k \in 1..Len(kept) : r[at[k]] = Lower(value[kept[k]])
            /\ at[1] = 1 /\ at[Len(at)] = Len(r)
            /\ \A k \in 1..(Len(kept) - 1) :
                 at[k + 1] - at[k] = IF kept[k + 1] = kept[k] + 1 THEN 1 ELSE 2

\* C13: slugify returns, for every input, the lower-cased input with every
\* maximal run of characters outside [a-z0-9] replaced by one underscore and
\* leading and trailing underscores removed, or "endpoint" when that is
\* empty; the result is never empty, never starts or ends with an
\* underscore, and slugify(slugify(x)) = slugify(x).
C13_SlugifyCharacterised ==
    fn = "slugify" =>
        /\ IsSlugOf(slug, arg)
        /\ slug # <<>>
        /\ slug[1] # "_" /\ slug[Len(slug)] # "_"
        /\ slugify(slug) = slug
        /\ arg = ThreeEndpoints => slugify(SubSeq(arg, 11, 18)) =
                                   <<"delete", "_", "users", "_", "id">>

\* an input with an upper-case word, a letter outside ASCII and a trailing
\* separator
C13_Witness ==
    /\ fn = "slugify"
    /\ arg = <<"Get", "U+00C9", "x", "/">>
    /\ slug = <<"get", "_", "x">>

\* C14: crawl terminates for every link graph, cap and failure pattern:
\* eventually the queue is empty or the visited count has reached the cap,
\* and the Corpus is returned.
C14_CrawlTerminates ==
    <>(/\ pc = "done"
       /\ q = <<>> \/ Cardinality(visited) >= config.max_pages
       /\ corpus = docs)

\* a finished crawl that met a page linking to itself, a link enqueued twice
\* and a failed fetch
C14_Witness ==
    /\ pc = "done"
    /\ start_url \in seen
    /\ skipped > 0
    /\ failed # {}

(***************************************************************************)
(* Further properties of the orchestrator                                  *)
(***************************************************************************)
CallsOf(kind) == {i \in 1..Len(calls) : calls[i][1] = kind}

\* C15: within one build_blueprint call the primary strategy is invoked
\* exactly once and before any fallback; the fallback is invoked only after
\* the primary raised, at most once, and never when the primary returned.
C15_PrimaryOnceThenFallback ==
    /\ bpc \in {"start", "primary"} => calls = <<>>
    /\ bpc \in {"fallback", "repair", "returned", "raised"} =>
         CallsOf("primary") = {1}
    /\ Cardinality(CallsOf("fallback")) <= 1
    /\ \A i \in CallsOf("fallback") :
         i = 2 /\ calls[1] = <<"primary", "raised">>
    /\ (calls # <<>> /\ calls[1] = <<"primary", "returned">>) => Len(calls) = 1
    /\ bpc = "fallback" => calls = <<<<"primary", "raised">>>>

\* a call that ended after a failed primary call and one fallback call
C15_Witness ==
    /\ bpc = "returned"
    /\ calls = <<<<"primary", "raised">>, <<"fallback", "returned">>>>

\* C16: the health_check repair is the only change the orchestrator makes
\* to the blueprint it obtained: with at least one endpoint it is returned
\* unchanged; with none, exactly one endpoint (health_check, GET, /) is
\* appended and name, summary and prerequisites are unchanged.
C16_OnlyRepairChanges ==
    bpc = "returned" =>
        IF obtained.endpoints # <<>> THEN blueprint = obtained
        ELSE /\ Len(blueprint.endpoints) = 1
             /\ blueprint.endpoints[1].name = <<"health_check">>
             /\ blueprint.endpoints[1].method = "GET"
             /\ blueprint.endpoints[1].path = <<"/">>
             /\ blueprint.name = obtained.name
             /\ blueprint.summary = obtained.summary
             /\ blueprint.prerequisites = obtained.prerequisites

\* an obtained blueprint without endpoints but with a prerequisite was
\* repaired
C16_Witness ==
    /\ bpc = "returned"
    /\ obtained.endpoints = <<>>
    /\ obtained.prerequisites # <<>>
    /\ blueprint # obtained

\* the calls[i] was served by the heuristic strategy
ServedByHeuristic(i) ==
    \/ calls[i][1] = "fallback"
    \/ calls[i][1] = "primary" /\ llm_client = "heuristic"

Enqueued ==
    IF Len(q') > Len(q) THEN {q'[i] : i \in (Len(q) + 1)..Len(q')} ELSE {}

\* the step dequeues a URL, marks it visited and rejects it
DequeuedAndRejected ==
    /\ pc = "loop" /\ pc' = "loop"
    /\ q # <<>> /\ q' = Tail(q)
    /\ visited' = visited \cup {Head(q)} /\ visited' # visited

\* C17: every URL put on the queue after the seed was discovered as a link
\* on a fetched text/html page, passes the scope check (host of the start
\* URL, an allow pattern, no deny pattern) and was not visited when it was
\* enqueued; hence the start URL is the only URL that can be dequeued and
\* then rejected by the scope check.
C17_QueuedLinksInScope ==
    /\ [][\A u \in Enqueued :
            /\ url \in Range(fetched)
            /\ PrimaryMime(response) = <<"text/html">>
            /\ \E h \in Hrefs : u = UrlJoin(url, h)
            /\ UrlAllowed(u)
            /\ u \notin visited]_vars
    /\ [][DequeuedAndRejected => Head(q) = start_url]_vars

\* C19: each distinct URL is fetched at most once and the Corpus holds at
\* most one Document per URL, even when the URL is enqueued several times;
\* a repeated dequeue of a visited URL changes neither the visited set, the
\* document list nor the queue behind its head.
C19_FetchedOnce ==
    /\ [](\A i, j \in 1..Len(fetched) : fetched[i] = fetched[j] => i = j)
    /\ [](\A i, j \in 1..Len(docs) : docs[i].url = docs[j].url => i = j)
    /\ [](pc = "done" => corpus = docs)
    /\ [][(pc = "loop" /\ LoopCondition /\ q # <<>> /\ Head(q) \in visited) =>
            /\ visited' = visited
            /\ docs' = docs
            /\ fetched' = fetched
            /\ q' = Tail(q)
            /\ pc' = "loop"]_vars

\* a crawl has ended in which a URL sat twice on the queue and its second
\* copy was dequeued
C19_Witness ==
    /\ pc = "done"
    /\ skipped > 0
    /\ Len(corpus) >= 2

\* C20: the crawl explores breadth-first: URLs leave the queue in the order
\* in which they were put on it, so a URL first discovered at link distance
\* d is visited before any URL first discovered at distance d + 1, and the
\* start URL is the first URL visited.
C20_BreadthFirst ==
    /\ [][\/ q' = q
          \/ q # <<>> /\ q' = Tail(q) /\ url' = Head(q)
          \/ Len(q') > Len(q) /\ SubSeq(q', 1, Len(q)) = q]_vars
    /\ [](\A i, j \in 1..Len(fetched) :
            i < j => depth[fetched[i]] <= depth[fetched[j]])
    /\ [](visited # {} => start_url \in visited)
    /\ [](fetched # <<>> => fetched[1] = start_url)
    /\ [](\A u \in visited : u = start_url \/ u \in linked)

\* a crawl in which a URL of distance 2 was on the queue behind a URL of
\* distance 1
C20_Witness ==
    /\ pc = "done"
    /\ Len(fetched) = 4
    /\ depth[fetched[2]] = 1 /\ depth[fetched[3]] = 1
    /\ depth[fetched[4]] = 2
    /\ fetched[4] \in linked

====
